---- MODULE Spec2Model ----
(***************************************************************************)
(* Federated job coordinator (server/services/federated-service.ts) and    *)
(* its in-process ledger (BlockchainService, server/services/              *)
(* quantum-service.ts), with the in-memory storage the two use.            *)
(*                                                                         *)
(* Handlers are async functions: a handler runs without interruption up    *)
(* to an await whose continuation reads or writes coordinator state, and   *)
(* other handlers may run between two such segments.  Every segment is one *)
(* action; the position of a handler that is suspended at an await is kept *)
(* in startPc (startFederatedJob) and in tasks (handleModelUpdate).        *)
(***************************************************************************)
EXTENDS Integers, Sequences, FiniteSets, TLC

\* ------------------------------------------------------------------ bounds
MaxChain == 3       \* blocks in the ledger, genesis included
MaxLedger == 4      \* blocks in the ledger where only the ledger is exercised
MaxTime == 1        \* latest reading of the wall clock
MaxObjs == 3        \* FederatedNode objects that are referenced at one time
MaxRoundChain == 4  \* blocks in the ledger where several rounds are run
MaxLiveChain == 5   \* blocks in the ledger where a job is run to its end
MaxPipe == 1        \* PROGRESS chunks of a child process waiting on its stdout
MaxHookSockets == 3 \* WebSocket objects the client hook makes

\* ------------------------------------------------------------ input domains
NodeIds == {"n1", "n2"}
JobIds == {"j1", "j2"}
OneJob == {"j1"}
Sockets == {"s1", "s2"}
Keys == {"k1", "k2"}
Stakes == {1, 2}
Times == 0..MaxTime

\* The clock reading where a specification lets the clock stand still: the
\* coordinator stores timestamps and never reads one.
Clock(ch) == ch[Len(ch)].timestamp

\* The storage rows registerNode can create: the node and its stake.
NodeInfos == { [nodeId |-> "n1", stakeAmount |-> 2], [nodeId |-> "n2", stakeAmount |-> 1] }

\* The key pair of each node; node_register carries its public key.
KeyOf == [n \in NodeIds |-> IF n = "n1" THEN "k1" ELSE "k2"]

\* The connection each node uses where a specification pins it.
SocketOf == [n \in NodeIds |-> IF n = "n1" THEN "s1" ELSE "s2"]
Updates == {"u1"}
SignedData == {"u1", "u0"}

\* Payloads handed to addBlock by a direct caller.
Payloads == { [type |-> "audit"], [type |-> "note"] }

\* A job config as startFederatedJob reads it.  0 stands for a field that is
\* missing or falsy: the code reads every field through `x || default` or a
\* numeric comparison, for which 0 and undefined behave alike.
Configs ==
  { [minNodes |-> 0, maxNodes |-> 0, minStake |-> 0, maxRounds |-> 1],
    [minNodes |-> 2, maxNodes |-> 1, minStake |-> 0, maxRounds |-> 2],
    [minNodes |-> 3, maxNodes |-> 2, minStake |-> 0, maxRounds |-> 0],
    [minNodes |-> 1, maxNodes |-> 2, minStake |-> 2, maxRounds |-> 1] }

VARIABLES
  chain,        \* BlockchainService.chain
  difficulty,   \* BlockchainService.difficulty
  conn,         \* each WebSocket connection: "open" until its close event
  storedNodes,  \* storage.federatedNodes
  storedJobs,   \* storage.federatedJobs
  heap,         \* the FederatedNode objects; a reference is an index
  nodes,        \* FederatedService.nodes, a Map in insertion order
  activeJobs,   \* FederatedService.activeJobs and the job objects
  startPc,      \* position of each startFederatedJob call
  tasks,        \* handleModelUpdate calls suspended at an await
  timers,       \* pending setTimeout(startTrainingRound) per job
  regOrder,     \* history: node ids in the order of their first registration
  last,         \* what the last step did and the messages it sent
  rlAgents,             \* storage.rlAgents: the status of each agent row
  trainingProcesses,    \* RLService.trainingProcesses: the ids it holds
  childProc,            \* the child process spawned for each agent
  connectionStatus,     \* useWebSocket: the connectionStatus state
  websocketRef,         \* useWebSocket: websocketRef.current, 0 for null
  reconnectAttemptsRef, \* useWebSocket: reconnectAttemptsRef.current
  reconnectTimeoutRef,  \* useWebSocket: reconnectTimeoutRef.current, 0 for null
  sockets,              \* readyState of every WebSocket the hook has made
  hookTimers            \* the reconnect timers that are set and not yet fired

rlVars == << rlAgents, trainingProcesses, childProc >>

hookVars == << connectionStatus, websocketRef, reconnectAttemptsRef,
               reconnectTimeoutRef, sockets, hookTimers >>

vars == << chain, difficulty, rlVars, hookVars, conn, storedNodes, storedJobs, heap, nodes,
           activeJobs, startPc, tasks, timers, regOrder, last >>

Range(s) == { s[i] : i \in 1..Len(s) }

Min(a, b) == IF a < b THEN a ELSE b

\* ------------------------------------------------------------------ ledger
\* The hash of no input at all: the "" a block starts with.
EmptyHash == << >>

\* previousHash of the genesis block, "0".
ZeroHash == << 0 >>

GenesisData == [type |-> "genesis"]

\* sha256 over index + timestamp + JSON(data) + previousHash + nonce, taken
\* as injective: the digest is the tuple of its inputs.
calculateHash(block) ==
  << block.index, block.timestamp, block.data, block.previousHash, block.nonce >>

\* Number of leading '0' hex characters of a digest: a fixed function of the
\* hashed input that runs through 0, 1, 2 as the nonce is stepped.
LeadingZeros(h) ==
  LET s == (h[1] + h[2] + h[5]) % 3
  IN  IF s = 0 THEN 2 ELSE IF s = 2 THEN 1 ELSE 0

MeetsTargetOneShort(h, d) ==
  IF h = EmptyHash THEN d = 0 ELSE LeadingZeros(h) >= d - 1

\* hash.substring(0, d) === Array(d + 1).join("0")
MeetsTarget(h, d) ==
  IF h = EmptyHash THEN d = 0 ELSE LeadingZeros(h) >= d

mineStepStale(block) ==
  [block EXCEPT !.nonce = @ + 1, !.hash = calculateHash(block)]

\* One turn of the loop of mineBlock: nonce++, then the hash is recomputed.
mineStep(block) ==
  LET b == [block EXCEPT !.nonce = @ + 1]
  IN  [b EXCEPT !.hash = calculateHash(b)]

RECURSIVE mineBlock(_, _)
mineBlock(block, d) ==
  IF MeetsTarget(block.hash, d) THEN block ELSE mineBlock(mineStep(block), d)

createGenesisBlock(ts) ==
  LET g == [index |-> 0, timestamp |-> ts, data |-> GenesisData,
            previousHash |-> ZeroHash, nonce |-> 0, hash |-> EmptyHash]
  IN  [g EXCEPT !.hash = calculateHash(g)]

newBlockSameIndex(ch, data, ts) ==
  LET previousBlock == ch[Len(ch)]
  IN  [index |-> previousBlock.index, timestamp |-> ts, data |-> data,
       previousHash |-> previousBlock.hash, nonce |-> 0, hash |-> EmptyHash]

\* The block addBlock builds before mining it.
newBlock(ch, data, ts) ==
  LET previousBlock == ch[Len(ch)]
  IN  [index |-> previousBlock.index + 1, timestamp |-> ts, data |-> data,
       previousHash |-> previousBlock.hash, nonce |-> 0, hash |-> EmptyHash]

\* addBlock has no await: it mines and pushes in one uninterrupted run.
addBlock(ch, data, ts, d) == Append(ch, mineBlock(newBlock(ch, data, ts), d))

validateChainLinksOnly(ch) ==
  \A i \in 2..Len(ch) : ch[i].previousHash = ch[i - 1].hash

\* The loop starts at the second block: the genesis block is never examined.
validateChain(ch) ==
  \A i \in 2..Len(ch) :
    /\ ch[i].hash = calculateHash(ch[i])
    /\ ch[i].previousHash = ch[i - 1].hash

UpdateData(nodeId, modelUpdate, ts) ==
  [type |-> "federated_update", nodeId |-> nodeId,
   modelUpdate |-> modelUpdate, timestamp |-> ts]

\* recordFederatedUpdate: the chain after the append; the returned hash is
\* the hash of its last block.
recordFederatedUpdate(ch, nodeId, modelUpdate, ts, d) ==
  addBlock(ch, UpdateData(nodeId, modelUpdate, ts), ts, d)

\* ------------------------------------------------------------- signatures
\* A key pair is named by one key id: the private key k signs, the public
\* key k verifies.  A signature is the signed data with the signing key.
signData(data, privateKey) == [data |-> data, key |-> privateKey]

Signatures == { signData(u, k) : u \in SignedData, k \in Keys }

verifySignatureAny(data, signature, publicKey) == signature.data = data

verifySignature(data, signature, publicKey) ==
  signature.data = data /\ signature.key = publicKey

\* ---------------------------------------------------------------- storage
NoStoredNode == [stake |-> 0, status |-> "none"]

NullModel == [type |-> "null"]

\* aggregationResults; its timestamp is written and never read, and is left out.
NoResults == [round |-> 0, participatingNodes |-> 0]

NoStoredJob ==
  [status |-> "none", rounds |-> 0, participatingNodes |-> << >>,
   globalModel |-> NullModel, aggregationResults |-> NoResults]

\* The status a POST body carries: none ("unset"), or any text.  The insert
\* schema leaves status optional, and the "preparing" default is the
\* database column's, which MemStorage does not apply.
InsertStatuses == {"unset", "preparing", "completed"}

\* storage.createFederatedJob: { ...insertJob, id, createdAt }; the row has
\* the status of the insert, or none.
createFederatedJob(status) == [NoStoredJob EXCEPT !.status = status]

\* ------------------------------------------------------- registry and jobs
\* this.nodes.get(nodeId) !== undefined
HasNode(reg, nodeId) == \E i \in 1..Len(reg) : reg[i].id = nodeId

\* this.nodes.get(nodeId), as a reference into heap
NodeRef(reg, nodeId) ==
  reg[CHOOSE i \in 1..Len(reg) : reg[i].id = nodeId].ref

MapSetMoveToEnd(reg, nodeId, ref) ==
  LET Other(e) == e.id # nodeId
  IN  Append(SelectSeq(reg, Other), [id |-> nodeId, ref |-> ref])

\* Map.set: a new key goes last, a known key keeps its place.
MapSet(reg, nodeId, ref) ==
  IF HasNode(reg, nodeId)
  THEN [i \in 1..Len(reg) |->
          IF reg[i].id = nodeId THEN [id |-> nodeId, ref |-> ref] ELSE reg[i]]
  ELSE Append(reg, [id |-> nodeId, ref |-> ref])

\* Array.from(this.nodes.values())
MapValues(reg) == [i \in 1..Len(reg) |-> reg[i].ref]

\* The job object before startFederatedJob has built it.
NoJob ==
  [tracked |-> FALSE, config |-> [minNodes |-> 0, maxNodes |-> 0,
                                  minStake |-> 0, maxRounds |-> 0],
   nodes |-> << >>, currentRound |-> 0, globalModel |-> NullModel,
   modelUpdates |-> << >>]

\* A message sent on a socket; round is 0 where the message carries none.
Msg(to, type, text, round) == [to |-> to, type |-> type, text |-> text, round |-> round]

Ev(op, job, node, sent) == [op |-> op, job |-> job, node |-> node, sent |-> sent]

\* jobConfig.minNodes || 2, jobConfig.maxNodes || 10, jobConfig.minStake || 0
DefaultMinNodes == 2
DefaultMaxNodes == 10
MinNodesDefaultOnly(cfg) == DefaultMinNodes
MinNodesOf(cfg) == IF cfg.minNodes = 0 THEN DefaultMinNodes ELSE cfg.minNodes

MaxNodesDefaultOnly(cfg) == DefaultMaxNodes

MaxNodesOf(cfg) == IF cfg.maxNodes = 0 THEN DefaultMaxNodes ELSE cfg.maxNodes
MinStakeOf(cfg) == cfg.minStake

IsEligibleAnyStatus(hp, ref, cfg) == hp[ref].stakeAmount >= MinStakeOf(cfg)

\* node.status === "online" && node.stakeAmount >= (jobConfig.minStake || 0)
IsEligible(hp, ref, cfg) ==
  hp[ref].status = "online" /\ hp[ref].stakeAmount >= MinStakeOf(cfg)

\* Array.from(this.nodes.values()).filter(...)
availableNodes(reg, hp, cfg) ==
  LET Test(ref) == IsEligible(hp, ref, cfg)
  IN  SelectSeq(MapValues(reg), Test)

selectedNodesLast(avail, cfg) ==
  SubSeq(avail, Len(avail) - Min(MaxNodesOf(cfg), Len(avail)) + 1, Len(avail))

\* availableNodes.slice(0, jobConfig.maxNodes || 10)
selectedNodes(avail, cfg) == SubSeq(avail, 1, Min(MaxNodesOf(cfg), Len(avail)))

\* federatedAverage: a placeholder model that only counts the updates (its
\* timestamp is written and never read, and is left out).
federatedAverage(modelUpdates) ==
  IF Len(modelUpdates) = 0 THEN NullModel
  ELSE [type |-> "averaged_model", participants |-> Len(modelUpdates),
        parameters |-> "averaged_parameters"]

\* A startFederatedJob call: where it stands, its jobConfig argument and its
\* local selectedNodes.
NoCall == [pc |-> "idle", config |-> NoJob.config, selected |-> << >>]

\* A handleModelUpdate call suspended at an await, with the locals it still
\* reads.  blockHash is the hash of the block the call appended, which no
\* other call shares.
Task(jobId, nodeId, modelUpdate, signature, node, blockHash, pc) ==
  [jobId |-> jobId, nodeId |-> nodeId, modelUpdate |-> modelUpdate,
   signature |-> signature, node |-> node, blockHash |-> blockHash, pc |-> pc]

\* ------------------------------------------------------------------- Init
\* ------------------------------------------------------------- RL service
RLAgents == { "a1", "a2" }

\* The status a POST body gives the agent row; "unset" stands for a body
\* without one, "none" for no row.
RLInsertStatuses == { "unset", "training" }

\* A child process: running, exited (by itself with code 0 or 1, or by a
\* signal) or closed (its close event has been delivered); killed is the
\* ChildProcess flag kill() sets when it delivers the signal; piped counts the
\* PROGRESS chunks on stdout that are not yet read; parses tells whether the
\* output after FINAL_RESULT: is JSON.
NoProcess == [state |-> "none", code |-> "none", killed |-> FALSE, piped |-> 0, parses |-> TRUE]

updateRlAgent(agents, a, status) == [agents EXCEPT ![a] = status]

InitRL ==
  /\ rlAgents = [a \in RLAgents |-> "none"]
  /\ trainingProcesses = {}
  /\ childProc = [a \in RLAgents |-> NoProcess]

\* ---------------------------------------------------------- client socket
\* The hook's defaults.
shouldReconnect == TRUE

maxReconnectAttempts == 5

InitHook ==
  /\ connectionStatus = "Disconnected"
  /\ websocketRef = 0
  /\ reconnectAttemptsRef = 0
  /\ reconnectTimeoutRef = 0
  /\ sockets = << >>
  /\ hookTimers = {}

Init ==
  /\ chain = << createGenesisBlock(0) >>
  /\ difficulty = 2
  /\ conn = [s \in Sockets |-> "open"]
  /\ storedNodes = [n \in NodeIds |-> NoStoredNode]
  /\ storedJobs = [j \in JobIds |-> NoStoredJob]
  /\ heap = << >>
  /\ nodes = << >>
  /\ activeJobs = [j \in JobIds |-> NoJob]
  /\ startPc = [j \in JobIds |-> NoCall]
  /\ tasks = {}
  /\ timers = [j \in JobIds |-> 0]
  /\ regOrder = << >>
  /\ last = Ev("init", "", "", {})
  /\ InitRL
  /\ InitHook

\* ---------------------------------------------------------------- actions
\* registerNode: the storage row of a node, created offline with its stake.
registerNode(info) ==
  /\ storedNodes[info.nodeId].status = "none"
  /\ storedNodes' = [storedNodes EXCEPT
                       ![info.nodeId] = [stake |-> info.stakeAmount, status |-> "offline"]]
  /\ last' = Ev("registerNode", "", "", {})
  /\ UNCHANGED << chain, difficulty, rlVars, hookVars, conn, storedJobs, heap, nodes,
                  activeJobs, startPc, tasks, timers, regOrder >>

\* verifyNodeStake: the stored stake covers the claimed one.
verifyNodeStake(n, stakeAmount) ==
  /\ storedNodes[n].status # "none"
  /\ storedNodes[n].stake >= stakeAmount

\* A node object is referenced from the registry, from the roster of a job
\* object, or from the selection of a startFederatedJob call.
InRoster(ref) ==
  \E j \in JobIds : ref \in Range(activeJobs[j].nodes) \cup Range(startPc[j].selected)

\* handleNodeRegistration.  The stake it awaits is never changed by any
\* handler, so the check and the registration are one step.  The new node
\* object takes the place of the registered one in the Map; the old object
\* lives on where a roster holds it, and is dropped otherwise.
handleNodeRegistration(s, n, publicKey, stakeAmount) ==
  /\ conn[s] = "open"
  /\ LET node == [id |-> n, socket |-> s, publicKey |-> publicKey,
                  stakeAmount |-> stakeAmount, status |-> "online"]
     IN  IF ~verifyNodeStake(n, stakeAmount)
         THEN /\ last' = Ev("register_rejected", "", "",
                            {Msg(s, "error", "Insufficient stake", 0)})
              /\ UNCHANGED << heap, nodes, storedNodes, regOrder >>
         ELSE /\ IF HasNode(nodes, n) /\ ~InRoster(NodeRef(nodes, n))
                 THEN /\ heap' = [heap EXCEPT ![NodeRef(nodes, n)] = node]
                      /\ UNCHANGED nodes
                 ELSE /\ Len(heap) < MaxObjs
                      /\ heap' = Append(heap, node)
                      /\ nodes' = MapSet(nodes, n, Len(heap) + 1)
              /\ storedNodes' = [storedNodes EXCEPT ![n].status = "online"]
              /\ regOrder' = IF n \in Range(regOrder) THEN regOrder ELSE Append(regOrder, n)
              /\ last' = Ev("registered", "", n, {Msg(s, "registration_success", n, 0)})
  /\ UNCHANGED << chain, difficulty, rlVars, hookVars, conn, storedJobs, activeJobs,
                  startPc, tasks, timers >>

\* ws "close": handleNodeDisconnection marks the first registry entry bound
\* to the socket offline, in the registry and in storage.
handleNodeDisconnection(s) ==
  /\ conn[s] = "open"
  /\ conn' = [conn EXCEPT ![s] = "closed"]
  /\ LET hit == { i \in 1..Len(nodes) : heap[nodes[i].ref].socket = s }
     IN  IF hit = {}
         THEN UNCHANGED << heap, storedNodes >>
         ELSE LET i == CHOOSE k \in hit : \A m \in hit : k <= m
              IN  /\ heap' = [heap EXCEPT ![nodes[i].ref].status = "offline"]
                  /\ storedNodes' = [storedNodes EXCEPT ![nodes[i].id].status = "offline"]
  /\ last' = Ev("close", "", "", {})
  /\ UNCHANGED << chain, difficulty, rlVars, hookVars, storedJobs, nodes, activeJobs,
                  startPc, tasks, timers, regOrder >>

\* handleTrainingComplete: the registered node goes back to online.
handleTrainingComplete(s, n) ==
  /\ conn[s] = "open"
  /\ IF HasNode(nodes, n)
     THEN heap' = [heap EXCEPT ![NodeRef(nodes, n)].status = "online"]
     ELSE UNCHANGED heap
  /\ last' = Ev("training_complete", "", "", {})
  /\ UNCHANGED << chain, difficulty, rlVars, hookVars, conn, storedNodes, storedJobs, nodes,
                  activeJobs, startPc, tasks, timers, regOrder >>

\* POST /api/federated/jobs: the job row is created and startFederatedJob is
\* called without being awaited; it suspends at storage.getFederatedJob.
PostJob(j, cfg, st) ==
  /\ storedJobs[j].status = "none"
  /\ storedJobs' = [storedJobs EXCEPT ![j] = createFederatedJob(st)]
  /\ startPc' = [startPc EXCEPT ![j] = [pc |-> "start", config |-> cfg, selected |-> << >>]]
  /\ last' = Ev("post_job", j, "", {})
  /\ UNCHANGED << chain, difficulty, rlVars, hookVars, conn, storedNodes, heap, nodes,
                  activeJobs, tasks, timers, regOrder >>

\* startFederatedJob from the admission filter to the await of the storage
\* update that records the outcome.
StartSelect(j) ==
  /\ startPc[j].pc = "start"
  /\ LET cfg == startPc[j].config
         avail == availableNodes(nodes, heap, cfg)
         sel == selectedNodes(avail, cfg)
     IN  IF Len(avail) < MinNodesOf(cfg)
         THEN /\ storedJobs' = [storedJobs EXCEPT ![j].status = "insufficient_nodes"]
              /\ startPc' = [startPc EXCEPT ![j].pc = "done"]
              /\ last' = Ev("insufficient_nodes", j, "", {})
         ELSE /\ storedJobs' =
                   [storedJobs EXCEPT
                      ![j].status = "active",
                      ![j].participatingNodes =
                         [i \in 1..Len(sel) |->
                            [nodeId |-> heap[sel[i]].id, publicKey |-> heap[sel[i]].publicKey]]]
              /\ startPc' = [startPc EXCEPT ![j].pc = "activate", ![j].selected = sel]
              /\ last' = Ev("selected", j, "", {})
  /\ UNCHANGED << chain, difficulty, rlVars, hookVars, conn, storedNodes, heap, nodes,
                  activeJobs, tasks, timers, regOrder >>

startTrainingRoundSameRound(j, job, op, sentBefore) ==
  /\ activeJobs' = [activeJobs EXCEPT ![j] = job]
  /\ heap' = [r \in DOMAIN heap |->
                IF r \in Range(job.nodes) THEN [heap[r] EXCEPT !.status = "training"]
                ELSE heap[r]]
  /\ storedJobs' = [storedJobs EXCEPT ![j].rounds = job.currentRound]
  /\ last' = Ev(op, j, "",
                sentBefore \cup
                { Msg(heap[r].socket, "training_round_start", j, job.currentRound) :
                    r \in Range(job.nodes) })

\* startTrainingRound on a tracked job object: the round counter goes up, the
\* roster is told and marked training, the round is stored.
startTrainingRound(j, job, op, sentBefore) ==
  /\ activeJobs' = [activeJobs EXCEPT ![j] = [job EXCEPT !.currentRound = @ + 1]]
  /\ heap' = [r \in DOMAIN heap |->
                IF r \in Range(job.nodes) THEN [heap[r] EXCEPT !.status = "training"]
                ELSE heap[r]]
  /\ storedJobs' = [storedJobs EXCEPT ![j].rounds = job.currentRound + 1]
  /\ last' = Ev(op, j, "",
                sentBefore \cup
                { Msg(heap[r].socket, "training_round_start", j, job.currentRound + 1) :
                    r \in Range(job.nodes) })

\* startFederatedJob after the roster is stored: the job is tracked, the
\* roster notified and the first round started.
StartActivate(j) ==
  /\ startPc[j].pc = "activate"
  /\ LET sel == startPc[j].selected
         job == [tracked |-> TRUE, config |-> startPc[j].config, nodes |-> sel,
                 currentRound |-> 0, globalModel |-> NullModel,
                 modelUpdates |-> << >>]
     IN  startTrainingRound(j, job, "job_start",
           { Msg(heap[r].socket, "federated_job_start", j, 0) : r \in Range(sel) })
  /\ startPc' = [startPc EXCEPT ![j] = [NoCall EXCEPT !.pc = "done"]]
  /\ UNCHANGED << chain, difficulty, rlVars, hookVars, conn, storedNodes, nodes, tasks, timers, regOrder >>

\* The timeout set by aggregateModels fires: startTrainingRound(jobId).
TimerFire(j) ==
  /\ timers[j] > 0
  /\ timers' = [timers EXCEPT ![j] = @ - 1]
  /\ IF activeJobs[j].tracked
     THEN startTrainingRound(j, activeJobs[j], "round_start", {})
     ELSE /\ last' = Ev("round_start_untracked", j, "", {})
          /\ UNCHANGED << activeJobs, heap, storedJobs >>
  /\ UNCHANGED << chain, difficulty, rlVars, hookVars, conn, storedNodes, nodes, startPc, tasks, regOrder >>

\* handleModelUpdate up to the await of recordFederatedUpdate.  An unknown
\* node is dropped without an answer; an invalid signature is answered with
\* an error; a valid update is appended to the ledger.  verifySignature has
\* no await of its own and its continuation reads only the message and the
\* verdict, so the await on it is not a point where another handler can
\* change what this one does.
handleModelUpdateWithin(limit, s, j, n, u, sig, ts) ==
  /\ conn[s] = "open"
  /\ IF ~HasNode(nodes, n)
     THEN /\ last' = Ev("update_unknown_node", "", "", {})
          /\ UNCHANGED << chain, tasks >>
     ELSE IF ~verifySignature(u, sig, heap[NodeRef(nodes, n)].publicKey)
     THEN /\ last' = Ev("update_rejected", "", "",
                        {Msg(s, "error", "Invalid signature", 0)})
          /\ UNCHANGED << chain, tasks >>
     ELSE /\ Len(chain) < limit
          /\ ts >= chain[Len(chain)].timestamp
          /\ chain' = recordFederatedUpdate(chain, n, u, ts, difficulty)
          /\ tasks' = tasks \cup {Task(j, n, u, sig, NodeRef(nodes, n),
                                       chain'[Len(chain')].hash, "recorded")}
          /\ last' = Ev("update_recorded", j, n, {})
  /\ UNCHANGED << difficulty, rlVars, hookVars, conn, storedNodes, storedJobs, heap, nodes,
                  activeJobs, startPc, timers, regOrder >>

\* handleModelUpdate while the ledger is shorter than MaxChain.
handleModelUpdate(s, j, n, u, sig, ts) ==
  handleModelUpdateWithin(MaxChain, s, j, n, u, sig, ts)

\* An entry of job.modelUpdates (its timestamp is never read, and left out).
BufferEntry(t) ==
  [nodeId |-> t.nodeId, update |-> t.modelUpdate, blockHash |-> t.blockHash]

RoundCompleteAtOne(buffer, job) == Len(buffer) >= 1

\* job.modelUpdates.length === job.nodes.length
RoundComplete(buffer, job) == Len(buffer) = Len(job.nodes)

\* handleModelUpdate after recordFederatedUpdate: the update is buffered in
\* the tracked job and, when the buffer is as long as the roster,
\* aggregateModels runs up to the await of its storage update.
UpdateRecorded(t) ==
  /\ t \in tasks
  /\ t.pc = "recorded"
  /\ LET job == activeJobs[t.jobId]
         buffer == Append(job.modelUpdates, BufferEntry(t))
         model == federatedAverage(buffer)
     IN  IF ~job.tracked
         THEN /\ tasks' = tasks \ {t}
              /\ last' = Ev("update_untracked_job", t.jobId, t.nodeId, {})
              /\ UNCHANGED << activeJobs, storedJobs >>
         ELSE IF RoundComplete(buffer, job)
         THEN /\ activeJobs' = [activeJobs EXCEPT ![t.jobId].globalModel = model,
                                                  ![t.jobId].modelUpdates = << >>]
              /\ storedJobs' =
                   [storedJobs EXCEPT
                      ![t.jobId].globalModel = model,
                      ![t.jobId].aggregationResults =
                         [round |-> job.currentRound, participatingNodes |-> 0]]
              /\ tasks' = (tasks \ {t}) \cup {[t EXCEPT !.pc = "aggregated"]}
              /\ last' = Ev("aggregate", t.jobId, t.nodeId, {})
         ELSE /\ activeJobs' = [activeJobs EXCEPT ![t.jobId].modelUpdates = buffer]
              /\ tasks' = tasks \ {t}
              /\ last' = Ev("update_buffered", t.jobId, t.nodeId, {})
              /\ UNCHANGED storedJobs
  /\ UNCHANGED << chain, difficulty, rlVars, hookVars, conn, storedNodes, heap, nodes,
                  startPc, timers, regOrder >>

ShouldContinueInclusive(job) == job.currentRound <= job.config.maxRounds

\* job.currentRound < job.maxRounds (maxRounds is spread from the config)
ShouldContinue(job) == job.currentRound < job.config.maxRounds

\* aggregateModels after its storage update: the next round is scheduled, or
\* the job is stored as completed.
UpdateAggregated(t) ==
  /\ t \in tasks
  /\ t.pc = "aggregated"
  /\ LET job == activeJobs[t.jobId]
     IN  IF ShouldContinue(job)
         THEN /\ timers' = [timers EXCEPT ![t.jobId] = @ + 1]
              /\ tasks' = tasks \ {t}
              /\ last' = Ev("round_scheduled", t.jobId, "", {})
              /\ UNCHANGED storedJobs
         ELSE /\ storedJobs' = [storedJobs EXCEPT ![t.jobId].status = "completed"]
              /\ tasks' = (tasks \ {t}) \cup {[t EXCEPT !.pc = "completing"]}
              /\ last' = Ev("job_completed", t.jobId, "", {})
              /\ UNCHANGED timers
  /\ UNCHANGED << chain, difficulty, rlVars, hookVars, conn, storedNodes, heap, nodes,
                  activeJobs, startPc, regOrder >>

\* aggregateModels after the job is stored as completed: activeJobs.delete.
UpdateCompleting(t) ==
  /\ t \in tasks
  /\ t.pc = "completing"
  /\ activeJobs' = [activeJobs EXCEPT ![t.jobId].tracked = FALSE]
  /\ tasks' = tasks \ {t}
  /\ last' = Ev("job_untracked", t.jobId, "", {})
  /\ UNCHANGED << chain, difficulty, rlVars, hookVars, conn, storedNodes, storedJobs, heap,
                  nodes, startPc, timers, regOrder >>

\* One job is posted and run to its end while nodes register and submit
\* updates that name it, before it is posted, while it runs and after it has
\* ended (an update naming an id that is never posted takes the path of one
\* sent before the job is posted).  Node status is read by the admission
\* filter alone, so the handlers that only change it (close,
\* training_complete) are exercised with the admission of several jobs, in
\* SpecJobs.
Next ==
  \/ \E info \in NodeInfos : registerNode(info)
  \/ \E n \in NodeIds, st \in Stakes :
       /\ st >= storedNodes[n].stake
       /\ handleNodeRegistration(SocketOf[n], n, KeyOf[n], st)
  \/ \E j \in OneJob, cfg \in Configs, st \in InsertStatuses : PostJob(j, cfg, st)
  \/ \E j \in JobIds : StartSelect(j)
  \/ \E j \in JobIds : StartActivate(j)
  \/ \E j \in JobIds : TimerFire(j)
  \/ \E j \in OneJob, n \in NodeIds, u \in Updates, sig \in Signatures :
       handleModelUpdate(SocketOf[n], j, n, u, sig, Clock(chain))
  \/ \E t \in tasks : UpdateRecorded(t)
  \/ \E t \in tasks : UpdateAggregated(t)
  \/ \E t \in tasks : UpdateCompleting(t)

Spec == Init /\ [][Next]_vars

\* Two jobs are posted and started while nodes register, finish training and
\* disconnect; no update is submitted.
NextJobs ==
  \/ \E info \in NodeInfos : registerNode(info)
  \/ \E n \in NodeIds, st \in Stakes :
       /\ st >= storedNodes[n].stake
       /\ handleNodeRegistration(SocketOf[n], n, KeyOf[n], st)
  \/ \E s \in Sockets : handleNodeDisconnection(s)
  \/ \E n \in NodeIds : handleTrainingComplete(SocketOf[n], n)
  \/ \E j \in JobIds, cfg \in Configs, st \in InsertStatuses : PostJob(j, cfg, st)
  \/ \E j \in JobIds : StartSelect(j)
  \/ \E j \in JobIds : StartActivate(j)

SpecJobs == Init /\ [][NextJobs]_vars

\* Configs of jobs that run a second round.
RoundConfigs ==
  { [minNodes |-> 2, maxNodes |-> 2, minStake |-> 0, maxRounds |-> 2],
    [minNodes |-> 1, maxNodes |-> 1, minStake |-> 0, maxRounds |-> 2] }

\* One job is run through its rounds: the nodes register once, with their
\* stored stake, and every update is validly signed and names the job.
NextRounds ==
  \/ \E info \in NodeInfos : registerNode(info)
  \/ \E n \in NodeIds :
       /\ ~HasNode(nodes, n)
       /\ handleNodeRegistration(SocketOf[n], n, KeyOf[n], storedNodes[n].stake)
  \/ \E j \in OneJob, cfg \in RoundConfigs : PostJob(j, cfg, "unset")
  \/ \E j \in OneJob : StartSelect(j)
  \/ \E j \in OneJob : StartActivate(j)
  \/ \E j \in OneJob : TimerFire(j)
  \/ \E j \in OneJob, n \in NodeIds, u \in Updates :
       handleModelUpdateWithin(MaxRoundChain, SocketOf[n], j, n, u,
                               signData(u, KeyOf[n]), Clock(chain))
  \/ \E t \in tasks : UpdateRecorded(t)
  \/ \E t \in tasks : UpdateAggregated(t)
  \/ \E t \in tasks : UpdateCompleting(t)

SpecRounds == Init /\ [][NextRounds]_vars

\* Configs of the jobs that are run to their end.
LiveConfigs ==
  RoundConfigs \cup { [minNodes |-> 2, maxNodes |-> 2, minStake |-> 0, maxRounds |-> 1] }

\* A roster node that has been told of the current round of its job and has
\* not yet answered it sends its one update of the round.
SubmitOnce(j, n) ==
  /\ activeJobs[j].tracked
  /\ storedJobs[j].status = "active"
  /\ HasNode(nodes, n)
  /\ NodeRef(nodes, n) \in Range(activeJobs[j].nodes)
  /\ timers[j] = 0
  /\ \A t \in tasks : t.jobId # j \/ (t.pc = "recorded" /\ t.nodeId # n)
  /\ \A i \in 1..Len(activeJobs[j].modelUpdates) :
       activeJobs[j].modelUpdates[i].nodeId # n
  /\ \E u \in Updates :
       handleModelUpdateWithin(MaxLiveChain, SocketOf[n], j, n, u,
                               signData(u, KeyOf[n]), Clock(chain))

\* One job is run with every roster node connected and answering each round
\* start with one valid update.
NextLive ==
  \/ \E info \in NodeInfos : registerNode(info)
  \/ \E n \in NodeIds :
       /\ ~HasNode(nodes, n)
       /\ handleNodeRegistration(SocketOf[n], n, KeyOf[n], storedNodes[n].stake)
  \/ \E j \in OneJob, cfg \in LiveConfigs : PostJob(j, cfg, "unset")
  \/ \E j \in OneJob : StartSelect(j)
  \/ \E j \in OneJob : StartActivate(j)
  \/ \E j \in OneJob : TimerFire(j)
  \/ \E j \in OneJob, n \in NodeIds : SubmitOnce(j, n)
  \/ \E t \in tasks : UpdateRecorded(t)
  \/ \E t \in tasks : UpdateAggregated(t)
  \/ \E t \in tasks : UpdateCompleting(t)

\* Every call that is suspended at an await is resumed, every timer that is
\* set fires, and every roster node sends the update it owes.
FairLive ==
  /\ \A j \in OneJob : WF_vars(StartSelect(j))
  /\ \A j \in OneJob : WF_vars(StartActivate(j))
  /\ \A j \in OneJob : WF_vars(TimerFire(j))
  /\ \A j \in OneJob, n \in NodeIds : WF_vars(SubmitOnce(j, n))
  /\ WF_vars(\E t \in tasks : UpdateRecorded(t))
  /\ WF_vars(\E t \in tasks : UpdateAggregated(t))
  /\ WF_vars(\E t \in tasks : UpdateCompleting(t))

SpecLive == Init /\ [][NextLive]_vars /\ FairLive

\* Nodes register and register again, over either connection and with either
\* key, while a job is admitted and connections close.
NextRegistry ==
  \/ \E info \in NodeInfos : registerNode(info)
  \/ \E s \in Sockets, n \in NodeIds, k \in Keys, st \in Stakes :
       handleNodeRegistration(s, n, k, st)
  \/ \E s \in Sockets : handleNodeDisconnection(s)
  \/ \E j \in OneJob, cfg \in Configs, st \in InsertStatuses : PostJob(j, cfg, st)
  \/ \E j \in JobIds : StartSelect(j)
  \/ \E j \in JobIds : StartActivate(j)

SpecRegistry == Init /\ [][NextRegistry]_vars

\* ------------------------------------------------- the ledger on its own
\* A caller appends a payload with addBlock.
AddBlock(data, ts) ==
  /\ Len(chain) < MaxLedger
  /\ ts >= chain[Len(chain)].timestamp
  /\ chain' = addBlock(chain, data, ts, difficulty)
  /\ last' = Ev("addBlock", "", "", {})
  /\ UNCHANGED << difficulty, rlVars, hookVars, conn, storedNodes, storedJobs, heap, nodes,
                  activeJobs, startPc, tasks, timers, regOrder >>

\* A caller records an update with recordFederatedUpdate.
RecordFederatedUpdate(n, u, ts) ==
  /\ Len(chain) < MaxLedger
  /\ ts >= chain[Len(chain)].timestamp
  /\ chain' = recordFederatedUpdate(chain, n, u, ts, difficulty)
  /\ last' = Ev("recordFederatedUpdate", "", n, {})
  /\ UNCHANGED << difficulty, rlVars, hookVars, conn, storedNodes, storedJobs, heap, nodes,
                  activeJobs, startPc, tasks, timers, regOrder >>

\* An audit calls validateChain; its verdict is all it produces.
ValidateChain ==
  /\ last' = Ev(IF validateChain(chain) THEN "validate_true" ELSE "validate_false",
                "", "", {})
  /\ UNCHANGED << chain, difficulty, rlVars, hookVars, conn, storedNodes, storedJobs, heap,
                  nodes, activeJobs, startPc, tasks, timers, regOrder >>

NextLedger ==
  \/ \E data \in Payloads, ts \in Times : AddBlock(data, ts)
  \/ \E n \in NodeIds, u \in Updates, ts \in Times : RecordFederatedUpdate(n, u, ts)
  \/ ValidateChain

SpecLedger == Init /\ [][NextLedger]_vars

\* ------------------------------------------- validateChain on altered chains
\* Payloads a block's data can be replaced with.
TamperData == Payloads \cup {GenesisData}

\* The chain with the payload of the block at position i replaced and every
\* other field, its stored hash included, as it was.
Tampered(ch, i, d) == [ch EXCEPT ![i].data = d]

\* validateChain applied to the chain with one payload replaced; the chain
\* itself is left alone and the verdict is all the step produces.
ValidateTampered(i, d) ==
  /\ i \in 1..Len(chain)
  /\ d # chain[i].data
  /\ last' = Ev((IF i = 1 THEN "genesis_tampered_" ELSE "block_tampered_")
                  \o (IF validateChain(Tampered(chain, i, d)) THEN "true" ELSE "false"),
                "", "", {})
  /\ UNCHANGED << chain, difficulty, rlVars, hookVars, conn, storedNodes, storedJobs, heap,
                  nodes, activeJobs, startPc, tasks, timers, regOrder >>

NextTamper ==
  \/ NextLedger
  \/ \E i \in 1..MaxLedger, d \in TamperData : ValidateTampered(i, d)

SpecTamper == Init /\ [][NextTamper]_vars

\* ------------------------------------------------ the ledger by difficulty
\* Values the difficulty field is set to; the class initialises it to 2.
Difficulties == {0, 1, 2}

InitMining ==
  /\ chain = << createGenesisBlock(0) >>
  /\ difficulty \in Difficulties
  /\ conn = [s \in Sockets |-> "open"]
  /\ storedNodes = [n \in NodeIds |-> NoStoredNode]
  /\ storedJobs = [j \in JobIds |-> NoStoredJob]
  /\ heap = << >>
  /\ nodes = << >>
  /\ activeJobs = [j \in JobIds |-> NoJob]
  /\ startPc = [j \in JobIds |-> NoCall]
  /\ tasks = {}
  /\ timers = [j \in JobIds |-> 0]
  /\ regOrder = << >>
  /\ last = Ev("init", "", "", {})
  /\ InitRL
  /\ InitHook

SpecMining == InitMining /\ [][NextLedger]_vars

\* ------------------------------------------------------ the health probe
\* chain.length > 0 && this.validateChain(): validateChain is async, so the
\* right operand is the promise of its verdict, not the verdict.
isHealthy(ch) ==
  IF Len(ch) > 0
  THEN [kind |-> "promise", resolves |-> validateChain(ch)]
  ELSE [kind |-> "boolean", value |-> FALSE]

\* What a value counts as where a boolean is read: every object is truthy.
Truthy(v) == IF v.kind = "boolean" THEN v.value ELSE TRUE

\* GET /api/health reads blockchainService.isHealthy().
IsHealthy ==
  /\ last' = Ev(IF Truthy(isHealthy(chain)) THEN "healthy_true" ELSE "healthy_false",
                "", "", {})
  /\ UNCHANGED << chain, difficulty, rlVars, hookVars, conn, storedNodes, storedJobs, heap,
                  nodes, activeJobs, startPc, tasks, timers, regOrder >>

NextHealth ==
  \/ NextLedger
  \/ IsHealthy

SpecHealth == InitMining /\ [][NextHealth]_vars

\* --------------------------------------------------- RL training processes
FederatedUnchanged ==
  UNCHANGED << chain, difficulty, conn, storedNodes, storedJobs, heap, nodes,
               activeJobs, startPc, tasks, timers, regOrder >>

\* POST /api/rl/agents: the row is created with the status of the body and
\* trainAgent spawns the process and keeps it under the agent's id.
PostAgent(a, st) ==
  /\ rlAgents[a] = "none"
  /\ rlAgents' = [rlAgents EXCEPT ![a] = st]
  /\ childProc' = [childProc EXCEPT ![a] = [NoProcess EXCEPT !.state = "running"]]
  /\ trainingProcesses' = trainingProcesses \cup {a}
  /\ last' = Ev("post_agent", "", a, {})
  /\ FederatedUnchanged
  /\ UNCHANGED hookVars

\* The running process writes a PROGRESS line.
ProcWrites(a) ==
  /\ childProc[a].state = "running"
  /\ childProc[a].piped < MaxPipe
  /\ childProc' = [childProc EXCEPT ![a].piped = @ + 1]
  /\ last' = Ev("proc_writes", "", a, {})
  /\ FederatedUnchanged
  /\ UNCHANGED << rlAgents, trainingProcesses, hookVars >>

\* The running process ends by itself.
ProcExits(a, code, ok) ==
  /\ childProc[a].state = "running"
  /\ childProc' = [childProc EXCEPT ![a].state = "exited", ![a].code = code,
                                    ![a].parses = ok]
  /\ last' = Ev("proc_exits", "", a, {})
  /\ FederatedUnchanged
  /\ UNCHANGED << rlAgents, trainingProcesses, hookVars >>

\* The stdout data handler on a PROGRESS chunk.
StdoutData(a) ==
  /\ childProc[a].state \in { "running", "exited" }
  /\ childProc[a].piped > 0
  /\ childProc' = [childProc EXCEPT ![a].piped = @ - 1]
  /\ rlAgents' = updateRlAgent(rlAgents, a, "training")
  /\ last' = Ev("stdout_data", "", a, {})
  /\ FederatedUnchanged
  /\ UNCHANGED << trainingProcesses, hookVars >>

\* The status the close handler stores for an exit code.
CloseStatus(code, ok) ==
  IF code = "code0" THEN (IF ok THEN "completed" ELSE "failed") ELSE "failed"

\* The close handler: runs once the process has ended and its stdout is read.
ProcClose(a) ==
  /\ childProc[a].state = "exited"
  /\ childProc[a].piped = 0
  /\ trainingProcesses' = trainingProcesses \ {a}
  /\ rlAgents' = updateRlAgent(rlAgents, a,
                               CloseStatus(childProc[a].code, childProc[a].parses))
  /\ childProc' = [childProc EXCEPT ![a].state = "closed"]
  /\ last' = Ev("proc_close", "", a, {})
  /\ FederatedUnchanged
  /\ UNCHANGED hookVars

\* process.kill(): a running process gets the signal and ends with no exit
\* code; one that has ended already is left as it is.
kill(p) ==
  IF p.state = "running"
  THEN [p EXCEPT !.state = "exited", !.code = "signal", !.killed = TRUE]
  ELSE p

stopTraining(a) ==
  /\ IF a \in trainingProcesses
     THEN /\ childProc' = [childProc EXCEPT ![a] = kill(@)]
          /\ trainingProcesses' = trainingProcesses \ {a}
          /\ rlAgents' = updateRlAgent(rlAgents, a, "stopped")
          /\ last' = Ev("stop_training", "", a, {})
     ELSE /\ UNCHANGED rlVars
          /\ last' = Ev("stop_training_none", "", a, {})
  /\ FederatedUnchanged
  /\ UNCHANGED hookVars

NextRL ==
  \/ \E a \in RLAgents, st \in RLInsertStatuses : PostAgent(a, st)
  \/ \E a \in RLAgents : ProcWrites(a)
  \/ \E a \in RLAgents, code \in { "code0", "code1" }, ok \in BOOLEAN : ProcExits(a, code, ok)
  \/ \E a \in RLAgents : StdoutData(a)
  \/ \E a \in RLAgents : ProcClose(a)
  \/ \E a \in RLAgents : stopTraining(a)

SpecRL == Init /\ [][NextRL]_vars

\* ------------------------------------------------------ the client's socket
\* connect(): nothing when the current socket is open; otherwise a new socket
\* becomes the current one.  The url is one the WebSocket constructor takes.
connect(op) ==
  /\ IF websocketRef # 0 /\ sockets[websocketRef] = "OPEN"
     THEN UNCHANGED << connectionStatus, websocketRef, sockets >>
     ELSE /\ Len(sockets) < MaxHookSockets
          /\ connectionStatus' = "Connecting"
          /\ sockets' = Append(sockets, "CONNECTING")
          /\ websocketRef' = Len(sockets) + 1
  /\ last' = Ev(op, "", "", {})

\* connect() called by the component or by the mount effect.
Connect ==
  /\ connect("connect")
  /\ FederatedUnchanged
  /\ UNCHANGED << rlVars, reconnectAttemptsRef, reconnectTimeoutRef, hookTimers >>

\* A reconnect timer fires and calls connect().
ReconnectTimerFire(t) ==
  /\ t \in hookTimers
  /\ hookTimers' = hookTimers \ {t}
  /\ connect("reconnect")
  /\ FederatedUnchanged
  /\ UNCHANGED << rlVars, reconnectAttemptsRef, reconnectTimeoutRef >>

onopen(w) ==
  /\ w \in 1..Len(sockets)
  /\ sockets[w] = "CONNECTING"
  /\ sockets' = [sockets EXCEPT ![w] = "OPEN"]
  /\ connectionStatus' = "Connected"
  /\ reconnectAttemptsRef' = 0
  /\ last' = Ev("onopen", "", "", {})
  /\ FederatedUnchanged
  /\ UNCHANGED << rlVars, websocketRef, reconnectTimeoutRef, hookTimers >>

onerror(w) ==
  /\ w \in 1..Len(sockets)
  /\ sockets[w] # "CLOSED"
  /\ connectionStatus' = "Error"
  /\ last' = Ev("onerror", "", "", {})
  /\ FederatedUnchanged
  /\ UNCHANGED << rlVars, websocketRef, reconnectAttemptsRef, reconnectTimeoutRef,
                  sockets, hookTimers >>

\* Whether the close handler sets a reconnect timer.
Reconnects ==
  /\ shouldReconnect
  /\ reconnectAttemptsRef < maxReconnectAttempts

\* The close event of a socket: closed by the other side, by a failure or by
\* close().  The timer it sets is named after the socket.
onclose(w) ==
  /\ w \in 1..Len(sockets)
  /\ sockets[w] # "CLOSED"
  /\ sockets' = [sockets EXCEPT ![w] = "CLOSED"]
  /\ connectionStatus' = "Disconnected"
  /\ IF Reconnects
     THEN /\ reconnectAttemptsRef' = reconnectAttemptsRef + 1
          /\ reconnectTimeoutRef' = w
          /\ hookTimers' = hookTimers \cup {w}
     ELSE UNCHANGED << reconnectAttemptsRef, reconnectTimeoutRef, hookTimers >>
  /\ last' = Ev("onclose", "", "", {})
  /\ FederatedUnchanged
  /\ UNCHANGED << rlVars, websocketRef >>

\* WebSocket.close(): a socket that is not yet closing starts to.
close(state) == IF state \in { "CONNECTING", "OPEN" } THEN "CLOSING" ELSE state

disconnect ==
  /\ IF reconnectTimeoutRef # 0
     THEN /\ hookTimers' = hookTimers \ {reconnectTimeoutRef}
          /\ reconnectTimeoutRef' = 0
     ELSE UNCHANGED << hookTimers, reconnectTimeoutRef >>
  /\ IF websocketRef # 0
     THEN /\ sockets' = [sockets EXCEPT ![websocketRef] = close(@)]
          /\ websocketRef' = 0
     ELSE UNCHANGED << sockets, websocketRef >>
  /\ connectionStatus' = "Disconnected"
  /\ last' = Ev("disconnect", "", "", {})
  /\ FederatedUnchanged
  /\ UNCHANGED << rlVars, reconnectAttemptsRef >>

NextHook ==
  \/ Connect
  \/ \E t \in hookTimers : ReconnectTimerFire(t)
  \/ \E w \in 1..MaxHookSockets : onopen(w)
  \/ \E w \in 1..MaxHookSockets : onerror(w)
  \/ \E w \in 1..MaxHookSockets : onclose(w)
  \/ disconnect

SpecHook == Init /\ [][NextHook]_vars

\* ----------------------------------------------------------------- claims
\* C1: after construction and any sequence of addBlock and
\* recordFederatedUpdate calls, the block at every position i has index i
\* (positions counted from 0) and, past the genesis block, a previousHash
\* equal to the stored hash of the block before it.
C1_ChainWellFormed ==
  \A i \in 1..Len(chain) :
    /\ chain[i].index = i - 1
    /\ i > 1 => chain[i].previousHash = chain[i - 1].hash

\* A chain that both kinds of call have extended.
C1_Witness ==
  /\ Len(chain) >= 3
  /\ \E i \in 2..Len(chain) : chain[i].data.type = "federated_update"
  /\ \E i \in 2..Len(chain) : chain[i].data \in Payloads

\* C10: every chain that construction and appends produce passes
\* validateChain, and a validateChain call leaves the chain as it was.
C10_ValidAndUnchanged ==
  /\ [](validateChain(chain))
  /\ [][last'.op \in {"validate_true", "validate_false"} => chain' = chain]_vars

\* validateChain has answered true on a chain with two appended blocks.
C10_Witness == last.op = "validate_true" /\ Len(chain) >= 3

\* Node ids of the roster of a job object.
RosterIds(j) == { heap[r].id : r \in Range(activeJobs[j].nodes) }

\* C2: a model_update of a registered node that is not in the roster of the
\* named, tracked job appends no block, is not buffered and triggers no
\* aggregation: every update that is recorded, buffered or aggregated for a
\* tracked job comes from a node of its roster.
C2_NonRosterRejected ==
  [][(/\ last'.op \in {"update_recorded", "update_buffered", "aggregate"}
      /\ activeJobs[last'.job].tracked)
     => last'.node \in RosterIds(last'.job)]_vars

\* The handleModelUpdate call that this step suspended after the ledger write.
NewRecorded == { t \in tasks' : t \notin tasks /\ t.pc = "recorded" }

\* C3: an update is recorded only if its signature was made over the update
\* with the private key that pairs with the submitting node's registered
\* public key; an update whose signature does not verify is answered with an
\* error and leaves the ledger, the job objects and the stored jobs as they
\* were.
C3_BadSignatureRejected ==
  [][/\ \A t \in NewRecorded :
          /\ t.signature.data = t.modelUpdate
          /\ t.signature.key = heap[t.node].publicKey
     /\ last'.op = "update_rejected" =>
          /\ \E s \in Sockets : last'.sent = {Msg(s, "error", "Invalid signature", 0)}
          /\ chain' = chain
          /\ activeJobs' = activeJobs
          /\ storedJobs' = storedJobs
          /\ tasks' = tasks]_vars

\* An update was rejected for its signature while a job is tracked and the
\* ledger already holds an accepted update.
C3_Witness ==
  /\ last.op = "update_rejected"
  /\ Len(chain) >= 2
  /\ \E j \in JobIds : activeJobs[j].tracked

\* C4: when aggregateModels runs, the buffered updates (the one just pushed
\* included) hold an update from every roster node.
C4_AggregatesFullRoster ==
  [][last'.op = "aggregate" =>
       RosterIds(last'.job) \subseteq
         { activeJobs[last'.job].modelUpdates[i].nodeId :
             i \in 1..Len(activeJobs[last'.job].modelUpdates) } \cup {last'.node}]_vars

\* C5: aggregation runs in the step that pushes the update which makes the
\* buffer as long as the roster, and in no step that leaves it shorter: a
\* push that leaves it shorter changes neither the global model nor the
\* stored job.  For a roster of 2 and maxRounds 1 the aggregation therefore
\* comes with the second buffered update, never schedules a further round,
\* and its continuation can only store the job as completed.
TwoByOne(j) ==
  /\ Len(activeJobs[j].nodes) = 2
  /\ activeJobs[j].config.maxRounds = 1

C5_AggregationTrigger ==
  /\ [][/\ last'.op = "aggregate" =>
             /\ Len(activeJobs[last'.job].modelUpdates) + 1 = Len(activeJobs[last'.job].nodes)
             /\ activeJobs'[last'.job].modelUpdates = << >>
             /\ activeJobs'[last'.job].globalModel # NullModel
             /\ TwoByOne(last'.job) => Len(activeJobs[last'.job].modelUpdates) = 1
        /\ last'.op = "update_buffered" =>
             /\ Len(activeJobs'[last'.job].modelUpdates) = Len(activeJobs[last'.job].modelUpdates) + 1
             /\ Len(activeJobs'[last'.job].modelUpdates) # Len(activeJobs[last'.job].nodes)
             /\ activeJobs'[last'.job].globalModel = activeJobs[last'.job].globalModel
             /\ storedJobs' = storedJobs
        /\ \A j \in JobIds : TwoByOne(j) =>
             /\ ~(last'.op = "round_scheduled" /\ last'.job = j)
             /\ (last'.op = "job_completed" /\ last'.job = j) =>
                  storedJobs'[j].status = "completed"]_vars
  /\ [](\A t \in tasks :
          (t.pc = "aggregated" /\ TwoByOne(t.jobId)) =>
            ~(activeJobs[t.jobId].currentRound < activeJobs[t.jobId].config.maxRounds))

\* The second update of a roster of 2 with maxRounds 1 was aggregated and the
\* job is stored as completed.
C5_Witness ==
  \E j \in JobIds :
    /\ TwoByOne(j)
    /\ last.op = "job_completed" /\ last.job = j
    /\ storedJobs[j].status = "completed"
    /\ Len(chain) = 3

\* Registry entries that pass the admission filter of a config, counted
\* without the operators the model selects with.
EligibleNow(cfg) ==
  { i \in 1..Len(nodes) :
      /\ heap[nodes[i].ref].status = "online"
      /\ heap[nodes[i].ref].stakeAmount >= cfg.minStake }

\* C6: a startFederatedJob call that finds fewer eligible nodes than
\* config.minNodes stores the job as insufficient_nodes, records no roster,
\* tracks no job object, sends nothing and changes no node; such a job is
\* never stored as active or tracked afterwards.
C6_InsufficientNodes ==
  [][\A j \in JobIds :
       /\ (/\ startPc[j].pc = "start" /\ startPc'[j].pc # "start"
           /\ Cardinality(EligibleNow(startPc[j].config)) < startPc[j].config.minNodes)
          => /\ storedJobs'[j].status = "insufficient_nodes"
             /\ storedJobs'[j].participatingNodes = << >>
             /\ startPc'[j].pc = "done"
             /\ ~activeJobs'[j].tracked
             /\ last'.sent = {}
             /\ heap' = heap
       /\ storedJobs[j].status = "insufficient_nodes"
          => /\ storedJobs'[j] = storedJobs[j]
             /\ activeJobs'[j] = NoJob
             /\ timers'[j] = 0]_vars

\* A job asking for 3 nodes met 2 eligible ones and is stored as
\* insufficient_nodes.
C6_Witness ==
  \E j \in JobIds :
    /\ storedJobs[j].status = "insufficient_nodes"
    /\ last.op = "insufficient_nodes"
    /\ startPc[j].config.minNodes = 3
    /\ Cardinality(EligibleNow(startPc[j].config)) = 2

\* Node ids in order of first registration that are registered, online and
\* hold the stake a config asks for.
EligibleInOrder(cfg) ==
  LET Ok(n) == /\ HasNode(nodes, n)
               /\ heap[NodeRef(nodes, n)].status = "online"
               /\ heap[NodeRef(nodes, n)].stakeAmount >= cfg.minStake
  IN  SelectSeq(regOrder, Ok)

\* C7 as stated: when admission succeeds the selection holds exactly
\* min(config.maxNodes, eligible) nodes, the first eligible ones in order of
\* registration.
C7_RosterByConfigMaxNodes ==
  [][\A j \in JobIds :
       (startPc[j].pc = "start" /\ startPc'[j].pc = "activate") =>
         LET cfg == startPc[j].config
             elig == EligibleInOrder(cfg)
             k == Min(cfg.maxNodes, Len(elig))
             sel == startPc'[j].selected
         IN  /\ Len(sel) = k
             /\ \A i \in 1..k : sel[i] = NodeRef(nodes, elig[i])]_vars

\* C7 amended: when admission succeeds the selection is the first
\* min(M, eligible) eligible nodes in order of first registration, where M is
\* config.maxNodes, or 10 where the config gives none (or gives 0); it is
\* what the stored roster names, and the job object gets exactly that roster.
C7_RosterInRegistrationOrder ==
  [][\A j \in JobIds :
       /\ (startPc[j].pc = "start" /\ startPc'[j].pc = "activate") =>
            LET cfg == startPc[j].config
                elig == EligibleInOrder(cfg)
                k == Min(MaxNodesOf(cfg), Len(elig))
                sel == startPc'[j].selected
            IN  /\ Len(sel) = k
                /\ \A i \in 1..k : sel[i] = NodeRef(nodes, elig[i])
                /\ storedJobs'[j].participatingNodes =
                     [i \in 1..k |-> [nodeId |-> elig[i], publicKey |-> KeyOf[elig[i]]]]
       /\ (startPc[j].pc = "activate" /\ startPc'[j].pc = "done") =>
            activeJobs'[j].nodes = startPc[j].selected]_vars

\* A config with maxNodes 1 met two eligible nodes and the first registered
\* one was selected.
C7_Witness ==
  \E j \in JobIds :
    /\ startPc[j].pc = "activate"
    /\ startPc[j].config.maxNodes = 1
    /\ Len(EligibleInOrder(startPc[j].config)) = 2
    /\ Len(startPc[j].selected) = 1

\* C8: every node object placed in a selection is in the registry, online
\* and holds at least config.minStake at the step that selects it.
C8_SelectedAreEligible ==
  [][\A j \in JobIds :
       (startPc[j].pc = "start" /\ startPc'[j].pc = "activate") =>
         \A r \in Range(startPc'[j].selected) :
           /\ \E i \in 1..Len(nodes) : nodes[i].ref = r
           /\ heap[r].status = "online"
           /\ heap[r].stakeAmount >= startPc[j].config.minStake]_vars

\* A selection was made while a registered node was not online, and left it out.
C8_Witness ==
  \E j \in JobIds :
    /\ startPc[j].pc = "activate"
    /\ last.op = "selected"
    /\ \E i \in 1..Len(nodes) :
         /\ heap[nodes[i].ref].status \in {"offline", "training"}
         /\ nodes[i].ref \notin Range(startPc[j].selected)

\* C9: no node is in the roster of two jobs that are both tracked and stored
\* as active.
C9_OneActiveJobPerNode ==
  \A j \in JobIds, k \in JobIds :
    (/\ j # k
     /\ activeJobs[j].tracked /\ storedJobs[j].status = "active"
     /\ activeJobs[k].tracked /\ storedJobs[k].status = "active")
    => RosterIds(j) \cap RosterIds(k) = {}

\* C11: in every chain that construction and appends produce, replacing the
\* payload of any one block after the genesis block, its stored hash left as
\* it was, makes validateChain answer false.
C11_TamperedPayloadDetected ==
  /\ \A i \in 2..Len(chain) : \A d \in TamperData :
       d # chain[i].data => ~validateChain(Tampered(chain, i, d))
  /\ last.op # "block_tampered_true"

\* validateChain has answered false on a chain of three blocks with one
\* payload after the genesis block replaced.
C11_Witness == last.op = "block_tampered_false" /\ Len(chain) >= 3

\* C12: validateChain answers false whenever the stored hash of any block,
\* the genesis block included, differs from the hash recomputed from its
\* contents: no chain with one payload replaced passes.
C12_EveryBlockRecomputed ==
  last.op \notin {"genesis_tampered_true", "block_tampered_true"}

\* C13: every block of the chain past the genesis block, and so every block
\* addBlock has returned, carries the hash of its own final contents with at
\* least `difficulty` leading zeros, and a step that appends leaves the
\* earlier blocks as they were and adds exactly one such block.
C13_MinedBeforePushed ==
  /\ [](\A i \in 2..Len(chain) :
          /\ chain[i].hash = calculateHash(chain[i])
          /\ chain[i].hash # EmptyHash
          /\ LeadingZeros(chain[i].hash) >= difficulty
          /\ chain[i].nonce >= 1)
  /\ [][chain' # chain =>
          /\ Len(chain') = Len(chain) + 1
          /\ SubSeq(chain', 1, Len(chain)) = chain]_vars

\* Two blocks were appended whose nonce searches took different numbers of
\* steps.
C13_Witness ==
  /\ Len(chain) >= 3
  /\ difficulty = 2
  /\ \E i \in 2..Len(chain), k \in 2..Len(chain) : chain[i].nonce # chain[k].nonce

\* C14: with difficulty 0 every block addBlock appends carries the hash of
\* its own contents, so the chain passes validateChain.
C14_DifficultyZeroValid ==
  difficulty = 0 =>
    /\ validateChain(chain)
    /\ \A i \in 2..Len(chain) : chain[i].hash = calculateHash(chain[i])

\* No aggregation has run yet: every accepted update is still in a buffer.
NoAggregationYet == \A j \in JobIds : storedJobs[j].globalModel = NullModel

\* Updates recorded in the ledger whose handler has not yet come back from
\* the await of recordFederatedUpdate.
InFlight == { t \in tasks : t.pc = "recorded" }

\* C15: the ledger holds one block per update accepted into a round buffer
\* and none besides: until the first aggregation empties a buffer, the chain
\* length is 1 plus the number of buffered updates (plus the updates whose
\* handler is between the ledger write and the buffering).
C15_OneBlockPerAcceptedUpdate ==
  NoAggregationYet =>
    Len(chain) = 1 + Len(activeJobs["j1"].modelUpdates)
                   + Len(activeJobs["j2"].modelUpdates)
                   + Cardinality(InFlight)

\* C16: a model_update naming a job that is not tracked as active appends no
\* block: every update written to the ledger names a tracked job.
C16_UnknownJobRejected ==
  [][last'.op = "update_recorded" =>
       /\ activeJobs[last'.job].tracked
       /\ storedJobs[last'.job].status = "active"]_vars

\* C17: every model_update that is dropped (unknown node, bad signature,
\* unknown job) is answered with an error message in the step that drops it.
C17_RejectionAnswered ==
  [][last'.op \in {"update_unknown_node", "update_rejected", "update_untracked_job"}
       => \E m \in last'.sent : m.type = "error"]_vars

\* C18: the stored status of a job changes only from preparing to active,
\* from preparing to insufficient_nodes, or from active to completed, and a
\* job is created in preparing.
C18_StatusMoves ==
  [][\A j \in JobIds :
       storedJobs'[j].status # storedJobs[j].status =>
         << storedJobs[j].status, storedJobs'[j].status >> \in
           { << "none", "preparing" >>, << "preparing", "active" >>,
             << "preparing", "insufficient_nodes" >>, << "active", "completed" >> }]_vars

\* A job that aggregation has stored as completed and that is no longer in
\* the active-job map.
Removed(j) ==
  /\ storedJobs[j].status = "completed"
  /\ storedJobs[j].globalModel # NullModel
  /\ ~activeJobs[j].tracked

\* C19: the continuation of an aggregation schedules one round start and
\* leaves the job active and tracked when currentRound < maxRounds, and
\* otherwise stores the job as completed and then removes it from the
\* active-job map; once a job is completed and removed, no round is started
\* and no aggregation runs for it, and it stays completed and removed.
C19_ContinueOrComplete ==
  [][\A j \in JobIds :
       /\ (last'.op = "round_scheduled" /\ last'.job = j) =>
            /\ activeJobs[j].currentRound < activeJobs[j].config.maxRounds
            /\ timers'[j] = timers[j] + 1
            /\ storedJobs'[j].status = "active"
            /\ activeJobs'[j] = activeJobs[j]
            /\ activeJobs[j].tracked
       /\ (last'.op = "job_completed" /\ last'.job = j) =>
            /\ activeJobs[j].currentRound >= activeJobs[j].config.maxRounds
            /\ storedJobs'[j].status = "completed"
            /\ timers'[j] = timers[j]
            /\ \E t \in tasks' : t.pc = "completing" /\ t.jobId = j
       /\ (last'.op = "job_untracked" /\ last'.job = j) =>
            /\ storedJobs[j].status = "completed"
            /\ ~activeJobs'[j].tracked
       /\ Removed(j) =>
            /\ ~(last'.op \in {"round_start", "aggregate", "update_buffered", "job_start"}
                 /\ last'.job = j)
            /\ activeJobs'[j] = activeJobs[j]
            /\ storedJobs'[j] = storedJobs[j]
            /\ timers'[j] <= timers[j]]_vars

\* A job went through a scheduled second round, was then stored as
\* completed and removed from the active-job map.
C19_Witness ==
  \E j \in JobIds :
    /\ Removed(j)
    /\ last.op = "job_untracked" /\ last.job = j
    /\ activeJobs[j].currentRound = 2

\* Node ids of the registry, in the order of its entries.
RegistryIds(reg) == [i \in 1..Len(reg) |-> reg[i].id]

\* C20: the registry holds at most one entry per node id, in the order of
\* first registration; a registration of a known id leaves every entry in
\* its place and binds the id's entry to the connection the message came
\* over, with the key and stake of the message, and a registration of a new
\* id appends its entry; the other entries are left as they were.
C20_RegistrationIdempotent ==
  /\ [](/\ \A i \in 1..Len(nodes), k \in 1..Len(nodes) :
             nodes[i].id = nodes[k].id => i = k
        /\ RegistryIds(nodes) = regOrder)
  /\ [][last'.op = "registered" =>
          LET n == last'.node
              known == \E i \in 1..Len(nodes) : nodes[i].id = n
              at == CHOOSE i \in 1..Len(nodes') : nodes'[i].id = n
          IN  /\ RegistryIds(nodes') =
                   IF known THEN RegistryIds(nodes) ELSE Append(RegistryIds(nodes), n)
              /\ \E s \in Sockets :
                   /\ last'.sent = {Msg(s, "registration_success", n, 0)}
                   /\ heap'[nodes'[at].ref].socket = s
              /\ heap'[nodes'[at].ref].status = "online"
              /\ \A i \in 1..Len(nodes) :
                   nodes[i].id # n =>
                     /\ nodes'[i] = nodes[i]
                     /\ heap'[nodes'[i].ref] = heap[nodes[i].ref]]_vars

\* The first of two registered nodes has registered again over another
\* connection: the registry binds it to the new connection, in its old
\* place, while a roster still holds the object bound to the old one.
C20_Witness ==
  /\ Len(nodes) = 2
  /\ last.op = "registered"
  /\ last.node = nodes[1].id
  /\ \E r \in 1..Len(heap) :
       /\ r # nodes[1].ref
       /\ heap[r].id = nodes[1].id
       /\ heap[r].socket # heap[nodes[1].ref].socket
       /\ InRoster(r)

\* C21: the health probe of the ledger yields false whenever validateChain
\* returns false on the chain.
C21_HealthReportsValidation ==
  (last.op \in {"healthy_true", "healthy_false"} /\ ~validateChain(chain))
    => last.op = "healthy_false"

\* C22: every step that starts a round of a job raises its round counter by
\* exactly one and leaves its update buffer empty.
C22_RoundStartsEmpty ==
  [][\A j \in JobIds :
       (last'.op \in {"job_start", "round_start"} /\ last'.job = j) =>
         /\ activeJobs'[j].currentRound = activeJobs[j].currentRound + 1
         /\ activeJobs'[j].modelUpdates = << >>]_vars

\* Registry entries whose node object is bound to a connection.
BoundTo(s) == { i \in 1..Len(nodes) : heap[nodes[i].ref].socket = s }

\* C23: the step of a close event sets every registry entry bound to the
\* closed connection to offline and changes the status of no other entry.
C23_CloseMarksOffline ==
  [][last'.op = "close" =>
       \E s \in Sockets :
         /\ conn[s] = "open" /\ conn'[s] = "closed"
         /\ nodes' = nodes
         /\ \A i \in 1..Len(nodes) :
              heap'[nodes[i].ref].status =
                IF i \in BoundTo(s) THEN "offline" ELSE heap[nodes[i].ref].status]_vars

\* C24: a registered node that is offline stays offline in every step but
\* its own registration: no round start and no training_complete message
\* raises it to training or online.
C24_OfflineUntilRegistered ==
  [][\A i \in 1..Len(nodes) :
       (/\ heap[nodes[i].ref].status = "offline"
        /\ ~(last'.op = "registered" /\ last'.node = nodes[i].id))
       => /\ nodes'[i] = nodes[i]
          /\ heap'[nodes[i].ref].status = "offline"]_vars

\* C25: the round counter of a tracked job never exceeds the maxRounds of
\* its config (for a config that gives maxRounds).
C25_RoundsBounded ==
  \A j \in JobIds :
    (activeJobs[j].tracked /\ activeJobs[j].config.maxRounds >= 1)
      => activeJobs[j].currentRound <= activeJobs[j].config.maxRounds

\* C26: no update is pushed into the round buffer of a job, or counted for
\* its aggregation, from a node that already has an update in that buffer.
C26_OneUpdatePerNode ==
  [][last'.op \in {"update_buffered", "aggregate"} =>
       \A i \in 1..Len(activeJobs[last'.job].modelUpdates) :
         activeJobs[last'.job].modelUpdates[i].nodeId # last'.node]_vars

\* The config of a job that is stored as active: the one its job object was
\* built from, or the one its startFederatedJob call is about to build it
\* from.
ActiveConfig(j) ==
  IF activeJobs[j].tracked THEN activeJobs[j].config ELSE startPc[j].config

\* A job is stored as active with its roster.
IsActive(j) ==
  /\ storedJobs[j].status = "active"
  /\ activeJobs[j].tracked \/ startPc[j].pc = "activate"

\* C27 as stated: the roster of every active job whose config gives minNodes
\* and maxNodes has between minNodes and maxNodes members.
C27_RosterWithinConfig ==
  \A j \in JobIds :
    (IsActive(j) /\ ActiveConfig(j).minNodes >= 1 /\ ActiveConfig(j).maxNodes >= 1)
      => /\ Len(storedJobs[j].participatingNodes) >= ActiveConfig(j).minNodes
         /\ Len(storedJobs[j].participatingNodes) <= ActiveConfig(j).maxNodes

\* C27 amended: the roster of every active job has at most M members and at
\* least min(m, M), where m is config.minNodes (2 where the config gives
\* none) and M is config.maxNodes (10 where it gives none); the job object
\* holds a roster of the stored size.
C27_RosterWithinCap ==
  \A j \in JobIds :
    IsActive(j) =>
      LET cfg == ActiveConfig(j)
          m == IF cfg.minNodes = 0 THEN 2 ELSE cfg.minNodes
          M == IF cfg.maxNodes = 0 THEN 10 ELSE cfg.maxNodes
          size == Len(storedJobs[j].participatingNodes)
      IN  /\ size <= M
          /\ size >= Min(m, M)
          /\ activeJobs[j].tracked => Len(activeJobs[j].nodes) = size

\* A job with minNodes 2 and maxNodes 1 is active with a roster of one.
C27_Witness ==
  \E j \in JobIds :
    /\ IsActive(j) /\ activeJobs[j].tracked
    /\ ActiveConfig(j).minNodes = 2 /\ ActiveConfig(j).maxNodes = 1
    /\ Len(activeJobs[j].nodes) = 1

\* C28: a job that is activated with maxRounds R, whose roster nodes stay
\* connected and send one valid update after each round start, is eventually
\* stored as completed; when it is, R rounds have been aggregated, each from
\* one update of every roster node.
C28_JobCompletes ==
  /\ [](\A j \in OneJob :
          storedJobs[j].status = "completed" =>
            /\ activeJobs[j].currentRound = activeJobs[j].config.maxRounds
            /\ storedJobs[j].aggregationResults.round = activeJobs[j].config.maxRounds
            /\ Len(chain) = 1 + activeJobs[j].config.maxRounds * Len(activeJobs[j].nodes)
            /\ activeJobs[j].modelUpdates = << >>)
  /\ \A j \in OneJob :
       activeJobs[j].tracked ~> (storedJobs[j].status = "completed" /\ ~activeJobs[j].tracked)

\* A job of two rounds with a roster of two is stored as completed.
C28_Witness ==
  \E j \in OneJob :
    /\ storedJobs[j].status = "completed"
    /\ activeJobs[j].config.maxRounds = 2
    /\ Len(activeJobs[j].nodes) = 2
    /\ Len(chain) = 5

\* C29: once stopTraining has killed the running process of an agent, the
\* agent's stored status is stopped, and the close event of the process leaves
\* it stopped.
C29_StoppedStays ==
  \A a \in RLAgents : childProc[a].killed => rlAgents[a] = "stopped"

\* C30: from disconnect() until connect() is called again the hook has no
\* current socket, sets no reconnect timer, makes no socket, and its
\* connection status is Disconnected.
C30_NoReconnectAfterDisconnect ==
  /\ [](websocketRef = 0 => connectionStatus = "Disconnected" /\ hookTimers = {})
  /\ [][ (websocketRef = 0 /\ last'.op # "connect")
           => /\ websocketRef' = 0
              /\ hookTimers' = {}
              /\ sockets' \in { sockets } \cup { [sockets EXCEPT ![w] = "CLOSED"] : w \in DOMAIN sockets } ]_vars

====
